---- MODULE Spec2Model ----
(***************************************************************************)
(* Cache simulator of riscv/cachesim.{h,cc}: a chain of cache nodes, each  *)
(* with a set-associative tag array or a fully-associative tag map, Random *)
(* (LFSR) or LRU replacement, write-back or write-through stores, and an   *)
(* optional miss handler (the next cache level).                           *)
(*                                                                         *)
(* Words are uint64_t in the source, with VALID = bit 63 and DIRTY = bit   *)
(* 62.  The model keeps the layout and scales the width to WordBits, with  *)
(* VALID and DIRTY the two top bits; addresses are below 2^WordBits and    *)
(* linesz >= 8, so a block address never reaches the flag bits, as in the  *)
(* source.  Counters are uint64_t; the bounded runs stay far from 2^64.    *)
(*                                                                         *)
(* cachesim.cc reads two members cachesim.h does not declare: wb, the      *)
(* write policy tested by access (write-back when set), kept here as an    *)
(* attribute of the node fixed at construction; and tag_priority, an array *)
(* parallel to tags in cache_sim_t and, in fa_cache_sim_t, a map iterated  *)
(* like tags (std::map: ascending keys).                                   *)
(***************************************************************************)
EXTENDS Integers, Sequences, FiniteSets, TLC

\* ---------------------------------------------------------------- bounds
WordBits == 10
MaxAccesses == 4
MaxFetches == 6
MaxSizedAccesses == 2
MaxFieldLen == 2

\* ------------------------------------------------------ program constants
LfsrBits == 32
FaWays == 4
MinLinesz == 8
NULL == -1

RECURSIVE Pow2(_)
Pow2(n) == IF n = 0 THEN 1 ELSE 2 * Pow2(n - 1)

VALID == Pow2(WordBits - 1)
DIRTY == Pow2(WordBits - 2)

\* ------------------------------------------------------- word operations
\* b is a single-bit mask (a power of two)
HasBit(w, b) == (w \div b) % 2 = 1
\* w | b
OrBit(w, b) == IF HasBit(w, b) THEN w ELSE w + b
\* w & ~b
ClearBit(w, b) == IF HasBit(w, b) THEN w - b ELSE w
\* a >> s
Shr(a, s) == a \div Pow2(s)
\* a << s, truncated to the word
Shl(a, s) == (a * Pow2(s)) % Pow2(WordBits)
\* addr & ~(linesz - 1), linesz a power of two
LineBase(addr, linesz) == addr - (addr % linesz)

IsPow2(x) == \E k \in 0..WordBits : x = Pow2(k)

Min(S) == CHOOSE x \in S : \A y \in S : x <= y

\* ------------------------------------------------------------------ lfsr
\* reg is the set of the positions of the 1 bits of the 32-bit register
LfsrPoly == {0, 28, 30, 31}
LfsrSeed == {0}

\* reg = (reg>>1) ^ (-(reg&1) & 0xd0000001)
lfsr_next(reg) ==
  LET sh == {i - 1 : i \in reg \ {0}}
  IN IF 0 \in reg THEN (sh \ LfsrPoly) \cup (LfsrPoly \ sh) ELSE sh

\* the value of reg modulo m, most significant bit first
RECURSIVE RegModFrom(_, _, _, _)
RegModFrom(reg, m, i, acc) ==
  IF i < 0 THEN acc
  ELSE RegModFrom(reg, m, i - 1, (2 * acc + (IF i \in reg THEN 1 ELSE 0)) % m)

RegMod(reg, m) == RegModFrom(reg, m, LfsrBits - 1, 0)

\* -------------------------------------------------- construction (init)
RECURSIVE IdxShift(_)
IdxShift(x) == IF x > 1 THEN 1 + IdxShift(x \div 2) ELSE 0

\* init() accepts the geometry (does not call help())
init_ok(sets, ways, linesz) ==
  /\ ~(sets = 0 \/ ~IsPow2(sets))
  /\ ~(linesz < MinLinesz \/ ~IsPow2(linesz))

\* the immutable attributes of a node built by construct(config, name)
construct(sets, ways, linesz, lru, wb) ==
  [sets |-> sets, ways |-> ways, linesz |-> linesz, lru |-> lru, wb |-> wb,
   fa |-> (ways > FaWays /\ sets = 1),
   idx_shift |-> IdxShift(linesz)]

\* the mutable state of a node after init()
init(g) ==
  [tags |-> [s \in 0..(g.sets * g.ways - 1) |-> 0],
   tag_priority |-> [s \in 0..(g.sets * g.ways - 1) |-> 0],
   fa_tags |-> << >>,
   fa_tag_priority |-> << >>,
   lfsr |-> LfsrSeed,
   read_accesses |-> 0, read_misses |-> 0, bytes_read |-> 0,
   write_accesses |-> 0, write_misses |-> 0, bytes_written |-> 0,
   writebacks |-> 0,
   miss_handler |-> NULL]

\* ------------------------------------------------ set-associative store
\* size_t idx = (addr >> idx_shift) & (sets - 1)
SetIndex(g, addr) == Shr(addr, g.idx_shift) % g.sets
\* SetSlots taking the slots of every set
SetSlots_AllSets(g, idx) == 0..(g.sets * g.ways - 1)

\* the slots idx*ways + i, i < ways, of set idx
SetSlots(g, idx) == (idx * g.ways)..(idx * g.ways + g.ways - 1)

\* NewTag without the VALID bit
NewTag_NoValid(g, addr) == Shr(addr, g.idx_shift)

\* (addr >> idx_shift) | VALID
NewTag(g, addr) == OrBit(Shr(addr, g.idx_shift), VALID)

\* TagMatch finding no line at all
TagMatch_Never(tag, word) == FALSE

\* TagMatch comparing the whole word, DIRTY included
TagMatch_NoMask(tag, word) == tag = word

\* tag == (tags[idx*ways + i] & ~DIRTY)
TagMatch(tag, word) == tag = ClearBit(word, DIRTY)

\* lru_touch ageing every other slot of the set, younger or not
lru_touch_All(prio, slots, hit) ==
  [s \in DOMAIN prio |->
     IF s = hit THEN 0
     ELSE IF s \in slots THEN prio[s] + 1
          ELSE prio[s]]

\* the LRU update of a hit on slot hit: every slot of the set younger than
\* the hit slot ages by one, the hit slot becomes the youngest
lru_touch(prio, slots, hit) ==
  [s \in DOMAIN prio |->
     IF s = hit THEN 0
     ELSE IF s \in slots /\ prio[s] < prio[hit] THEN prio[s] + 1
          ELSE prio[s]]

\* lru_age ageing no slot
lru_age_None(prio, slots) == prio

\* ++tag_priority[idx*ways + i] for every slot of the set
lru_age(prio, slots) ==
  [s \in DOMAIN prio |-> IF s \in slots THEN prio[s] + 1 ELSE prio[s]]

\* lru_max choosing the smallest priority instead of the largest
lru_max_Youngest(prio, slots) ==
  Min({s \in slots : \A t \in slots : prio[t] >= prio[s]})

\* the first slot (key) in iteration order holding the largest priority
lru_max(prio, slots) == Min({s \in slots : \A t \in slots : prio[t] <= prio[s]})

\* cache_sim_t::check_tag: [hit_way |-> matched slot or NULL, c |-> node state]
check_tag(g, c, addr) ==
  LET idx == SetIndex(g, addr)
      tag == NewTag(g, addr)
      matches == {s \in SetSlots(g, idx) : TagMatch(tag, c.tags[s])}
  IN IF matches = {} THEN [hit_way |-> NULL, c |-> c]
     ELSE LET hit == Min(matches)
          IN [hit_way |-> hit,
              c |-> IF g.lru
                    THEN [c EXCEPT !.tag_priority =
                                     lru_touch(@, SetSlots(g, idx), hit)]
                    ELSE c]

\* cache_sim_t::victimize: [victim |-> evicted word, c |-> node state]
victimize(g, c, addr) ==
  LET idx == SetIndex(g, addr)
      slots == SetSlots(g, idx)
  IN IF g.lru
     THEN LET aged == lru_age(c.tag_priority, slots)
              max_tag_idx == lru_max(aged, slots)
          IN [victim |-> c.tags[max_tag_idx],
              c |-> [c EXCEPT !.tags[max_tag_idx] = NewTag(g, addr),
                              !.tag_priority = [aged EXCEPT ![max_tag_idx] = 0]]]
     ELSE LET reg == lfsr_next(c.lfsr)
              way == RegMod(reg, g.ways)
          IN [victim |-> c.tags[idx * g.ways + way],
              c |-> [c EXCEPT !.lfsr = reg,
                              !.tags[idx * g.ways + way] = NewTag(g, addr)]]

\* ------------------------------------------------ fully-associative store
\* the map without the entry of key k
MapErase(m, k) == [x \in (DOMAIN m) \ {k} |-> m[x]]
\* m[k] = v, inserting the entry when absent
MapPut(m, k, v) == [x \in (DOMAIN m) \cup {k} |-> IF x = k THEN v ELSE m[x]]
\* the key at ordinal position n of the map's (ascending key) iteration order
KeyAt(m, n) == CHOOSE k \in DOMAIN m : Cardinality({x \in DOMAIN m : x < k}) = n

\* FaFull with > for ==
FaFull_Greater(g, c) == Cardinality(DOMAIN c.fa_tags) > g.ways

\* tags.size() == ways
FaFull(g, c) == Cardinality(DOMAIN c.fa_tags) = g.ways

\* fa_cache_sim_t::check_tag; the handle of a hit is the key of the map entry
fa_check_tag(g, c, addr) ==
  LET key == Shr(addr, g.idx_shift)
  IN IF key \notin DOMAIN c.fa_tags \/ ~HasBit(c.fa_tags[key], VALID)
     THEN [hit_way |-> NULL, c |-> c]
     ELSE [hit_way |-> key,
           c |-> IF g.lru
                 THEN [c EXCEPT !.fa_tag_priority =
                                  lru_touch(@, DOMAIN c.fa_tag_priority, key)]
                 ELSE c]

\* fa_cache_sim_t::victimize
fa_victimize(g, c, addr) ==
  LET key == Shr(addr, g.idx_shift)
      aged == lru_age(c.fa_tag_priority, DOMAIN c.fa_tag_priority)
      max_tag_key == lru_max(aged, DOMAIN aged)
      reg == lfsr_next(c.lfsr)
      rnd_key == KeyAt(c.fa_tags, RegMod(reg, g.ways))
      c1 == IF ~FaFull(g, c) THEN c
            ELSE IF g.lru
                 THEN [c EXCEPT !.fa_tags = MapErase(c.fa_tags, max_tag_key),
                                !.fa_tag_priority = MapErase(aged, max_tag_key)]
                 ELSE [c EXCEPT !.lfsr = reg,
                                !.fa_tags = MapErase(c.fa_tags, rnd_key)]
      victim == IF ~FaFull(g, c) THEN 0
                ELSE IF g.lru THEN c.fa_tags[max_tag_key] ELSE c.fa_tags[rnd_key]
      c2 == [c1 EXCEPT !.fa_tags = MapPut(c1.fa_tags, key, NewTag(g, addr))]
  IN [victim |-> victim,
      c |-> IF g.lru
            THEN [c2 EXCEPT !.fa_tag_priority = MapPut(c2.fa_tag_priority, key, 0)]
            ELSE c2]

\* virtual dispatch on the node's class
CheckTag(g, c, addr) == IF g.fa THEN fa_check_tag(g, c, addr) ELSE check_tag(g, c, addr)
Victimize(g, c, addr) == IF g.fa THEN fa_victimize(g, c, addr) ELSE victimize(g, c, addr)

\* MarkDirty leaving the word as it is
MarkDirty_None(g, c, hit_way) == c

\* *hit_way |= DIRTY
MarkDirty(g, c, hit_way) ==
  IF g.fa THEN [c EXCEPT !.fa_tags[hit_way] = OrBit(@, DIRTY)]
  ELSE [c EXCEPT !.tags[hit_way] = OrBit(@, DIRTY)]

\* --------------------------------------------------------- access engine
\* CountAccess with the byte counters exchanged
CountAccess_SwappedBytes(c, bytes, store) ==
  IF store THEN [c EXCEPT !.write_accesses = @ + 1, !.bytes_read = @ + bytes]
  ELSE [c EXCEPT !.read_accesses = @ + 1, !.bytes_written = @ + bytes]

\* store ? write_accesses++ : read_accesses++; (store ? bytes_written : bytes_read) += bytes
CountAccess(c, bytes, store) ==
  IF store THEN [c EXCEPT !.write_accesses = @ + 1, !.bytes_written = @ + bytes]
  ELSE [c EXCEPT !.read_accesses = @ + 1, !.bytes_read = @ + bytes]

\* CountMiss counting every miss as a read miss
CountMiss_AlwaysRead(c, store) == [c EXCEPT !.read_misses = @ + 1]

\* store ? write_misses++ : read_misses++
CountMiss(c, store) ==
  IF store THEN [c EXCEPT !.write_misses = @ + 1]
  ELSE [c EXCEPT !.read_misses = @ + 1]

\* IsDirtyVictim testing (victim & (VALID | DIRTY)) != 0
IsDirtyVictim_AnyFlag(victim) == HasBit(victim, VALID) \/ HasBit(victim, DIRTY)

\* (victim & (VALID | DIRTY)) == (VALID | DIRTY)
IsDirtyVictim(victim) == HasBit(victim, VALID) /\ HasBit(victim, DIRTY)

\* (victim & ~(VALID | DIRTY)) << idx_shift
DirtyAddr(g, victim) == Shl(ClearBit(ClearBit(victim, VALID), DIRTY), g.idx_shift)

\* FillRequest sent as a store, like the writeback before it
FillRequest_AsStore(g, addr) ==
  [addr |-> LineBase(addr, g.linesz), bytes |-> g.linesz, store |-> TRUE]

\* WriteThroughRequest sent as a load
WriteThroughRequest_AsLoad(g, addr) ==
  [addr |-> LineBase(addr, g.linesz), bytes |-> g.linesz, store |-> FALSE]

\* WritebackRequest sent as a load
WritebackRequest_AsLoad(g, victim) ==
  [addr |-> DirtyAddr(g, victim), bytes |-> g.linesz, store |-> FALSE]

\* the requests a node with geometry g sends to its miss handler
WritebackRequest(g, victim) ==
  [addr |-> DirtyAddr(g, victim), bytes |-> g.linesz, store |-> TRUE]
FillRequest(g, addr) ==
  [addr |-> LineBase(addr, g.linesz), bytes |-> g.linesz, store |-> FALSE]
WriteThroughRequest(g, addr) ==
  [addr |-> LineBase(addr, g.linesz), bytes |-> g.linesz, store |-> TRUE]

\* the record of one call of access, as the calls log keeps it; marked is
\* set when the call ORs DIRTY into its line: the number of calls the log
\* holds at that moment (0: the call marks nothing)
Call(n, addr, bytes, store, hit, victim) ==
  [node |-> n, addr |-> addr, bytes |-> bytes, store |-> store,
   hit |-> hit, victim |-> victim, marked |-> 0]

\* F applied to the value of v (v is evaluated once)
Bind(v, F(_)) == CHOOSE r \in {F(x) : x \in {v}} : TRUE

\* cache_sim_t::access on node n.  G: the nodes' geometry; S = [cache |-> the
\* nodes' states, calls |-> the calls made so far, in invocation order].
RECURSIVE access(_, _, _, _, _, _)

\* access_hit forwarding the store of a hit whatever the write policy
access_hit_Forwarding(G, S, n, probe, addr, bytes, store) ==
  LET g == G[n]
      mh == S.cache[n].miss_handler
      wt == WriteThroughRequest(g, addr)
      c1 == IF store /\ g.wb THEN MarkDirty(g, probe.c, probe.hit_way)
            ELSE probe.c
      at == Len(S.calls) + 1
      S1 == [cache |-> [S.cache EXCEPT ![n] = c1],
             calls |-> Append(S.calls,
                         [Call(n, addr, bytes, store, TRUE, 0) EXCEPT
                            !.marked = IF store /\ g.wb THEN at ELSE 0])]
  IN IF store /\ mh # NULL
     THEN access(G, S1, mh, wt.addr, wt.bytes, wt.store)
     ELSE S1

\* the hit branch: probe is what check_tag returned
access_hit(G, S, n, probe, addr, bytes, store) ==
  LET g == G[n]
      mh == S.cache[n].miss_handler
      wt == WriteThroughRequest(g, addr)
      c1 == IF store /\ g.wb THEN MarkDirty(g, probe.c, probe.hit_way)
            ELSE probe.c
      at == Len(S.calls) + 1
      S1 == [cache |-> [S.cache EXCEPT ![n] = c1],
             calls |-> Append(S.calls,
                         [Call(n, addr, bytes, store, TRUE, 0) EXCEPT
                            !.marked = IF store /\ g.wb THEN at ELSE 0])]
  IN IF store /\ ~g.wb /\ mh # NULL
     THEN access(G, S1, mh, wt.addr, wt.bytes, wt.store)
     ELSE S1

\* access_miss OR-ing DIRTY into the installed line before the calls on the
\* miss handler instead of after them
access_miss_MarkFirst(G, S, n, v, addr, bytes, store) ==
  LET g == G[n]
      mh == S.cache[n].miss_handler
      wback == g.wb /\ IsDirtyVictim(v.victim)
      wbr == WritebackRequest(g, v.victim)
      fill == FillRequest(g, addr)
      wt == WriteThroughRequest(g, addr)
      c1 == IF wback THEN [v.c EXCEPT !.writebacks = @ + 1] ELSE v.c
      at == Len(S.calls) + 1
      again == CheckTag(g, c1, addr)
      c2 == IF store /\ g.wb THEN MarkDirty(g, again.c, again.hit_way) ELSE c1
      S1 == [cache |-> [S.cache EXCEPT ![n] = c2],
             calls |-> Append(S.calls,
                         [Call(n, addr, bytes, store, FALSE, v.victim) EXCEPT
                            !.marked = IF store /\ g.wb THEN at ELSE 0])]
      S2 == IF wback /\ mh # NULL
            THEN access(G, S1, mh, wbr.addr, wbr.bytes, wbr.store)
            ELSE S1
      S3 == IF mh # NULL
            THEN access(G, S2, mh, fill.addr, fill.bytes, fill.store)
            ELSE S2
  IN IF store /\ ~g.wb /\ mh # NULL
     THEN access(G, S3, mh, wt.addr, wt.bytes, wt.store)
     ELSE S3

\* the miss branch, once the miss counter is bumped: v is what victimize
\* returned
access_miss(G, S, n, v, addr, bytes, store) ==
  LET g == G[n]
      mh == S.cache[n].miss_handler
      wback == g.wb /\ IsDirtyVictim(v.victim)
      wbr == WritebackRequest(g, v.victim)
      fill == FillRequest(g, addr)
      wt == WriteThroughRequest(g, addr)
      c1 == IF wback THEN [v.c EXCEPT !.writebacks = @ + 1] ELSE v.c
      at == Len(S.calls) + 1
      S1 == [cache |-> [S.cache EXCEPT ![n] = c1],
             calls |-> Append(S.calls,
                         Call(n, addr, bytes, store, FALSE, v.victim))]
      S2 == IF wback /\ mh # NULL
            THEN access(G, S1, mh, wbr.addr, wbr.bytes, wbr.store)
            ELSE S1
      S3 == IF mh # NULL
            THEN access(G, S2, mh, fill.addr, fill.bytes, fill.store)
            ELSE S2
  IN IF store /\ g.wb
     THEN Bind(S3, LAMBDA T :
            Bind(CheckTag(g, T.cache[n], addr), LAMBDA again :
              [T EXCEPT !.cache[n] = MarkDirty(g, again.c, again.hit_way),
                        !.calls[at].marked = Len(T.calls)]))
     ELSE IF store /\ mh # NULL
          THEN access(G, S3, mh, wt.addr, wt.bytes, wt.store)
          ELSE S3

access(G, S, n, addr, bytes, store) ==
  Bind(S, LAMBDA T :
    Bind(CheckTag(G[n], CountAccess(T.cache[n], bytes, store), addr), LAMBDA probe :
      IF probe.hit_way # NULL
      THEN access_hit(G, T, n, probe, addr, bytes, store)
      ELSE Bind(Victimize(G[n], CountMiss(probe.c, store), addr), LAMBDA v :
             access_miss(G, T, n, v, addr, bytes, store))))

\* ------------------------------------------------------------ the system
\* geom: the nodes' immutable attributes; tracer: the memtracer class that
\* owns L1 ("I$" or "D$"); cache: the nodes' mutable state; calls: the access
\* calls of the latest traced access, in invocation order (calls[1] is the
\* traced access itself); nacc: the number of traced accesses; mru: for an
\* LRU L1, per set the blocks an ideal LRU of `ways` lines would hold, most
\* recently used first (a reference the code is compared with); stored: for
\* every write-back node, the blocks stored to since they were last
\* installed (the history DIRTY is compared with); config: in the
\* construction runs, the configuration text handed to construct, as its
\* ':'-separated fields (the nodes of the access runs are built from numbers).
VARIABLES geom, tracer, cache, calls, nacc, mru, stored, config
vars == <<geom, tracer, cache, calls, nacc, mru, stored, config>>

L1 == 1
L2 == 2
Nodes == {L1, L2}

\* sets:ways:linesz[:lru] and the write policy of L1 and of L2, data-cache runs
DChains ==
  { <<construct(4, 1, 8, FALSE, TRUE), construct(8, 2, 16, FALSE, TRUE)>>,
    <<construct(1, 2, 8, TRUE, TRUE), construct(2, 2, 16, TRUE, TRUE)>>,
    <<construct(2, 3, 8, TRUE, TRUE), construct(1, 1, 16, FALSE, TRUE)>>,
    <<construct(1, 2, 8, FALSE, TRUE), construct(1, 1, 8, FALSE, TRUE)>>,
    <<construct(1, 2, 8, FALSE, FALSE), construct(1, 1, 8, FALSE, TRUE)>>,
    <<construct(1, 5, 8, TRUE, TRUE), construct(1, 2, 8, TRUE, FALSE)>> }

\* and instruction-cache runs
IChains ==
  { <<construct(1, 5, 8, TRUE, TRUE), construct(1, 1, 8, FALSE, TRUE)>>,
    <<construct(1, 5, 8, FALSE, TRUE), construct(1, 2, 16, TRUE, TRUE)>>,
    <<construct(1, 3, 8, TRUE, TRUE), construct(1, 5, 8, TRUE, TRUE)>> }

\* data addresses, one of them (12) inside a line
Addrs == {0, 12, 64, 128, 256}
FetchAddrs == {0, 8, 16, 24, 32, 40}
Bytes == {4}
Sizes == {0, 17}

Init ==
  /\ \/ tracer = "D$" /\ geom \in DChains
     \/ tracer = "I$" /\ geom \in IChains
  /\ \A n \in Nodes : init_ok(geom[n].sets, geom[n].ways, geom[n].linesz)
  /\ cache = [n \in Nodes |-> init(geom[n])]
  /\ calls = << >>
  /\ nacc = 0
  /\ mru = [idx \in 0..(geom[L1].sets - 1) |-> << >>]
  /\ stored = [n \in Nodes |-> {}]
  /\ config = << >>

\* set_miss_handler, called once when the tracer wires the caches
set_miss_handler ==
  /\ nacc = 0
  /\ cache[L1].miss_handler = NULL
  /\ cache' = [cache EXCEPT ![L1].miss_handler = L2]
  /\ UNCHANGED <<geom, tracer, calls, nacc, mru, stored, config>>

\* The reference the LRU nodes are compared with: an ideal LRU list.
\* the sequence q without its element x
RECURSIVE Without(_, _)
Without(q, x) ==
  IF q = << >> THEN << >>
  ELSE IF Head(q) = x THEN Without(Tail(q), x)
       ELSE <<Head(q)>> \o Without(Tail(q), x)

\* move-to-front of block b in a recency list of at most `ways` blocks
MoveToFront(q, b, ways) ==
  LET r == <<b>> \o Without(q, b)
  IN IF Len(r) > ways THEN SubSeq(r, 1, ways) ELSE r

\* The history the DIRTY flags are compared with.
\* the blocks of a write-back node stored to since their install, after the
\* call e on that node: a miss forgets the evicted block and the installed
\* one, a store remembers its block
StoredAfterCall(g, st, e) ==
  LET b == Shr(e.addr, g.idx_shift)
      kept == IF e.hit THEN st
              ELSE (st \ {b}) \ (IF e.victim >= VALID THEN {e.victim % DIRTY} ELSE {})
  IN IF ~g.wb THEN st
     ELSE IF e.store THEN kept \cup {b} ELSE kept

\* the same after the calls i.. of the log q, in order
RECURSIVE StoredAfter(_, _, _, _)
StoredAfter(G, st, q, i) ==
  IF i > Len(q) THEN st
  ELSE StoredAfter(G, [st EXCEPT ![q[i].node] = StoredAfterCall(G[q[i].node], @, q[i])],
                   q, i + 1)

\* the traced access (addr, bytes, store) on L1, run to completion
Trace(addr, bytes, store) ==
  \E S \in {access(geom, [cache |-> cache, calls |-> << >>], L1, addr, bytes, store)} :
    /\ cache' = S.cache
    /\ calls' = S.calls
    /\ nacc' = nacc + 1
    /\ mru' = IF geom[L1].lru
              THEN [mru EXCEPT ![SetIndex(geom[L1], addr)] =
                      MoveToFront(@, Shr(addr, geom[L1].idx_shift), geom[L1].ways)]
              ELSE mru
    /\ stored' = StoredAfter(geom, stored, S.calls, 1)
    /\ UNCHANGED <<geom, tracer, config>>

\* icache_sim_t::trace: a FETCH is a load
icache_trace ==
  /\ tracer = "I$"
  /\ nacc < MaxFetches
  /\ \E addr \in FetchAddrs, bytes \in Bytes : Trace(addr, bytes, FALSE)

\* dcache_sim_t::trace: a LOAD or a STORE
dcache_trace ==
  /\ tracer = "D$"
  /\ nacc < MaxAccesses
  /\ \E addr \in Addrs, bytes \in Bytes, store \in BOOLEAN : Trace(addr, bytes, store)

Next == set_miss_handler \/ icache_trace \/ dcache_trace

Spec == Init /\ [][Next]_vars

\* data-cache runs over accesses of every size, empty and wider than a line
InitSized == Init /\ tracer = "D$"

dcache_trace_sized ==
  /\ tracer = "D$"
  /\ nacc < MaxSizedAccesses
  /\ \E addr \in Addrs, bytes \in Sizes, store \in BOOLEAN : Trace(addr, bytes, store)

NextSized == set_miss_handler \/ dcache_trace_sized

SpecSized == InitSized /\ [][NextSized]_vars

\* ------------------------------------------- construction from a config
\* A configuration text is the sequence of its ':'-separated fields, each a
\* sequence of characters.
Chars == {"0", "1", "2", "4", "6", "8", "x"}

\* the value of a decimal digit, NULL for any other character
DigitOf(ch) ==
  CASE ch = "0" -> 0 [] ch = "1" -> 1 [] ch = "2" -> 2 [] ch = "4" -> 4
    [] ch = "6" -> 6 [] ch = "8" -> 8 [] OTHER -> NULL

\* atoi: the value of the leading digits, 0 when there is none
RECURSIVE atoi_from(_, _)
atoi_from(f, acc) ==
  IF f = << >> \/ DigitOf(Head(f)) = NULL THEN acc
  ELSE atoi_from(Tail(f), 10 * acc + DigitOf(Head(f)))

atoi(f) == atoi_from(f, 0)

\* the fields of at most n characters
FieldsUpTo(n) == UNION {[1..k -> Chars] : k \in 0..n}

\* the text after the third ':'
Policies == {"lru", "rnd", ""}

\* the configuration texts of the construction runs: 1 to 4 fields; sets
\* and ways of at most one character, blocksize of at most MaxFieldLen
Configs ==
  LET F1 == FieldsUpTo(1)
      num == {<<a, b, c>> : a \in F1, b \in F1, c \in FieldsUpTo(MaxFieldLen)}
  IN {<<a>> : a \in F1} \cup {<<a, b>> : a \in F1, b \in F1}
       \cup num \cup {Append(t, p) : t \in num, p \in Policies}

\* cache_sim_t::construct(config, name) followed by the constructor's init():
\* [ok |-> FALSE] when help() is called, else the arguments of the node built
construct_config(cfg) ==
  IF Len(cfg) < 3 THEN [ok |-> FALSE]
  ELSE IF Len(cfg) > 3 /\ cfg[4] # "lru" THEN [ok |-> FALSE]
  ELSE IF ~init_ok(atoi(cfg[1]), atoi(cfg[2]), atoi(cfg[3])) THEN [ok |-> FALSE]
  ELSE [ok |-> TRUE, sets |-> atoi(cfg[1]), ways |-> atoi(cfg[2]),
        linesz |-> atoi(cfg[3]), lru |-> Len(cfg) > 3]

InitConfig ==
  /\ config \in Configs
  /\ tracer = "new"
  /\ geom = << >>
  /\ cache = << >>
  /\ calls = << >>
  /\ nacc = 0
  /\ mru = << >>
  /\ stored = << >>

\* help(): the message is printed and the process exits, no node is built
construct_help ==
  /\ tracer = "new"
  /\ ~construct_config(config).ok
  /\ tracer' = "exit"
  /\ UNCHANGED <<geom, cache, calls, nacc, mru, stored, config>>

\* construct returns the node it built, a cache_sim_t or an fa_cache_sim_t
construct_return ==
  /\ tracer = "new"
  /\ construct_config(config).ok
  /\ \E wb \in BOOLEAN :
       \E g \in {construct(construct_config(config).sets, construct_config(config).ways,
                           construct_config(config).linesz, construct_config(config).lru, wb)} :
         /\ geom' = <<g>>
         /\ cache' = <<init(g)>>
  /\ tracer' = "built"
  /\ UNCHANGED <<calls, nacc, mru, stored, config>>

NextConfig == construct_help \/ construct_return

SpecConfig == InitConfig /\ [][NextConfig]_vars

\* ------------------------------------------------------------ observers
\* the tag words a node holds: the slots of the array, or the map's values
Words(n) ==
  IF geom[n].fa THEN {cache[n].fa_tags[k] : k \in DOMAIN cache[n].fa_tags}
  ELSE {cache[n].tags[s] : s \in DOMAIN cache[n].tags}

\* the block address a word holds: the word without its two flag bits
BlockOf(w) == w % DIRTY

\* the blocks resident in the node held by c
Resident(g, c) ==
  IF g.fa THEN {k \in DOMAIN c.fa_tags : HasBit(c.fa_tags[k], VALID)}
  ELSE {BlockOf(c.tags[s]) : s \in {t \in DOMAIN c.tags : HasBit(c.tags[t], VALID)}}

\* which block every slot (map entry) holds, flags aside
Placement(g, c) ==
  IF g.fa THEN [k \in DOMAIN c.fa_tags |-> BlockOf(c.fa_tags[k])]
  ELSE [s \in DOMAIN c.tags |-> BlockOf(c.tags[s])]

Misses(c) == c.read_misses + c.write_misses

\* the indices of the calls of the log q made on node n
CallsOn(q, n) == {i \in 1..Len(q) : q[i].node = n}

RECURSIVE SumBytes(_, _)
SumBytes(q, I) ==
  IF I = {} THEN 0
  ELSE LET i == CHOOSE x \in I : TRUE IN q[i].bytes + SumBytes(q, I \ {i})

\* a step that is one traced access
IsTrace == nacc' = nacc + 1

\* ---------------------------------------------------------------- C1
\* C1: every call of access on a node adds 1 to write_accesses and bytes to
\* bytes_written when it is a store, 1 to read_accesses and bytes to bytes_read
\* when it is a load, whatever bytes is, and leaves the other two counters
\* alone: over a traced access, each node's four counters grow by exactly the
\* number and the bytes of the loads and of the stores called on it.
C1_AccessCounters ==
  [][IsTrace =>
      \A n \in Nodes :
        LET st == {i \in CallsOn(calls', n) : calls'[i].store}
            ld == {i \in CallsOn(calls', n) : ~calls'[i].store}
        IN /\ cache'[n].write_accesses = cache[n].write_accesses + Cardinality(st)
           /\ cache'[n].read_accesses = cache[n].read_accesses + Cardinality(ld)
           /\ cache'[n].bytes_written = cache[n].bytes_written + SumBytes(calls', st)
           /\ cache'[n].bytes_read = cache[n].bytes_read + SumBytes(calls', ld)]_vars

\* a store of more bytes than a line after an empty load, L2 called as well
C1_Witness ==
  /\ nacc = 2
  /\ calls[1].store /\ calls[1].bytes > geom[L1].linesz
  /\ cache[L1].bytes_written = calls[1].bytes
  /\ cache[L1].read_accesses = 1 /\ cache[L1].bytes_read = 0
  /\ Len(calls) > 1

\* ---------------------------------------------------------------- C2
\* C2: on every node, in every reachable state, read_misses <= read_accesses,
\* write_misses <= write_accesses and writebacks <= read_misses + write_misses.
C2_MissBounds ==
  \A n \in Nodes :
    /\ cache[n].read_misses <= cache[n].read_accesses
    /\ cache[n].write_misses <= cache[n].write_accesses
    /\ cache[n].writebacks <= Misses(cache[n])

\* L1 has hit, missed on loads and on stores and written a line back, and so
\* has L2
C2_Witness ==
  /\ cache[L1].writebacks > 0
  /\ cache[L1].read_misses > 0 /\ cache[L1].write_misses > 0
  /\ Misses(cache[L1]) < nacc
  /\ cache[L2].write_accesses > 0 /\ cache[L2].read_misses > 0

\* ---------------------------------------------------------------- C3
\* C3: every slot of a tag array is zero or has VALID set, every entry of a
\* tag map has VALID set, and no word has DIRTY without VALID.
C3_ValidSlots ==
  \A n \in Nodes : \A w \in Words(n) :
    /\ (w = 0 /\ ~geom[n].fa) \/ HasBit(w, VALID)
    /\ HasBit(w, DIRTY) => HasBit(w, VALID)

\* a write-back array with an empty, a clean and a dirty slot after an eviction
C3_Witness ==
  \E n \in Nodes :
    /\ ~geom[n].fa
    /\ 0 \in Words(n)
    /\ \E w \in Words(n) : HasBit(w, VALID) /\ HasBit(w, DIRTY)
    /\ \E w \in Words(n) : HasBit(w, VALID) /\ ~HasBit(w, DIRTY)
    /\ Misses(cache[n]) > Cardinality(Resident(geom[n], cache[n]))

\* ---------------------------------------------------------------- C4
\* C4: the tag map of a fully-associative node never holds more than ways
\* entries; it holds min(misses, ways) of them; a hit leaves its keys alone, a
\* miss on a map of fewer than ways entries adds the missing key and evicts
\* nothing, and a miss on a map of exactly ways entries replaces exactly one
\* key by the missing one.
C4_FaMapSize ==
  [][IsTrace =>
      \A n \in Nodes : geom[n].fa =>
        LET K == DOMAIN cache[n].fa_tags
            K2 == DOMAIN cache'[n].fa_tags
            on == CallsOn(calls', n)
            ways == geom[n].ways
        IN /\ Cardinality(K2) <= ways
           /\ Cardinality(K2) = Min({Misses(cache'[n]), ways})
           /\ (K \ K2 # {}) =>
                /\ Cardinality(K2) = ways
                /\ \E i \in on : ~calls'[i].hit
           /\ \A i \in on : Cardinality(on) = 1 =>
                LET key == Shr(calls'[i].addr, geom[n].idx_shift)
                IN IF calls'[i].hit THEN K2 = K
                   ELSE IF Cardinality(K) < ways
                        THEN key \notin K /\ K2 = K \cup {key}
                        ELSE /\ Cardinality(K) = ways
                             /\ key \notin K
                             /\ \E e \in K : K2 = (K \ {e}) \cup {key}]_vars

\* a full map after one more cold miss than it has ways: one entry is gone
C4_Witness ==
  \E n \in Nodes :
    /\ geom[n].fa
    /\ Misses(cache[n]) = geom[n].ways + 1
    /\ Cardinality(DOMAIN cache[n].fa_tags) = geom[n].ways
    /\ \E i \in CallsOn(calls, n) : HasBit(calls[i].victim, VALID)

\* ---------------------------------------------------------------- C5
\* the priorities of the occupied slots of every set of an LRU node
OccupiedSlots(n, idx) ==
  {s \in SetSlots(geom[n], idx) : HasBit(cache[n].tags[s], VALID)}

\* C5: on an LRU node, array or map, the priorities of the k occupied slots
\* of a set are a permutation of 0..k-1 after every access.
C5_LruPermutation ==
  \A n \in Nodes : geom[n].lru =>
    IF geom[n].fa
    THEN LET K == DOMAIN cache[n].fa_tags
         IN /\ DOMAIN cache[n].fa_tag_priority = K
            /\ {cache[n].fa_tag_priority[k] : k \in K} = 0..(Cardinality(K) - 1)
    ELSE \A idx \in 0..(geom[n].sets - 1) :
           LET O == OccupiedSlots(n, idx)
           IN {cache[n].tag_priority[s] : s \in O} = 0..(Cardinality(O) - 1)

\* ---------------------------------------------------------------- C6
\* C6 as stated: on a set-associative LRU node, the priorities of all the
\* ways slots of a set that has been hit or filled are a permutation of
\* 0..ways-1.
C6_FullPermutation ==
  \A n \in Nodes : (geom[n].lru /\ ~geom[n].fa) =>
    \A idx \in 0..(geom[n].sets - 1) :
      OccupiedSlots(n, idx) # {} =>
        {cache[n].tag_priority[s] : s \in SetSlots(geom[n], idx)}
          = 0..(geom[n].ways - 1)

\* C6 as amended: in a set that has been hit or filled and holds k occupied
\* slots, the occupied slots' priorities are a permutation of 0..k-1 and
\* every empty slot has priority k; so the priorities of all ways slots are
\* a permutation of 0..ways-1 exactly when at most one slot is empty.
C6_PrioritiesBySet ==
  \A n \in Nodes : (geom[n].lru /\ ~geom[n].fa) =>
    \A idx \in 0..(geom[n].sets - 1) :
      LET O == OccupiedSlots(n, idx)
          E == SetSlots(geom[n], idx) \ O
          k == Cardinality(O)
          P == {cache[n].tag_priority[s] : s \in SetSlots(geom[n], idx)}
      IN O # {} =>
           /\ {cache[n].tag_priority[s] : s \in O} = 0..(k - 1)
           /\ \A s \in E : cache[n].tag_priority[s] = k
           /\ (P = 0..(geom[n].ways - 1)) <=> (Cardinality(E) <= 1)

\* a set of three ways hit after its first fill: two empty slots tie
C6_Witness ==
  \E n \in Nodes :
    /\ geom[n].lru /\ ~geom[n].fa
    /\ \E idx \in 0..(geom[n].sets - 1) :
         /\ Cardinality(OccupiedSlots(n, idx)) = 1
         /\ Cardinality(SetSlots(geom[n], idx) \ OccupiedSlots(n, idx)) >= 2
    /\ Misses(cache[n]) < cache[n].read_accesses + cache[n].write_accesses

\* ---------------------------------------------------------------- C7
\* C7: on an LRU L1, array or map, once `ways` distinct lines of one set
\* have been touched once each, from cold, the next miss to that set evicts
\* the line touched first (the last of the recency list).
C7_EvictsFirstTouched ==
  [][(/\ IsTrace
      /\ geom[L1].lru
      /\ nacc = geom[L1].ways
      /\ Misses(cache[L1]) = nacc
      /\ Len(mru[SetIndex(geom[L1], calls'[1].addr)]) = geom[L1].ways
      /\ ~calls'[1].hit)
     => /\ HasBit(calls'[1].victim, VALID)
        /\ BlockOf(calls'[1].victim)
             = mru[SetIndex(geom[L1], calls'[1].addr)][geom[L1].ways]]_vars

\* ---------------------------------------------------------------- C8
\* C8: when the traced access hits, the same access (same address, same
\* is_store) traced next hits again: L1's miss counters and writebacks do not
\* move, no slot changes the block it holds, the LFSR does not advance and
\* the resident lines are the same.
C8_RepeatedHit ==
  [][(/\ IsTrace
      /\ nacc > 0
      /\ calls[1].hit
      /\ calls'[1].addr = calls[1].addr
      /\ calls'[1].store = calls[1].store)
     => /\ calls'[1].hit
        /\ cache'[L1].read_misses = cache[L1].read_misses
        /\ cache'[L1].write_misses = cache[L1].write_misses
        /\ cache'[L1].writebacks = cache[L1].writebacks
        /\ cache'[L1].lfsr = cache[L1].lfsr
        /\ Placement(geom[L1], cache'[L1]) = Placement(geom[L1], cache[L1])
        /\ Resident(geom[L1], cache'[L1]) = Resident(geom[L1], cache[L1])]_vars

\* a store hit repeated on a line that was dirty already, after an eviction
C8_Witness ==
  /\ nacc >= 4
  /\ calls[1].hit /\ calls[1].store
  /\ cache[L1].write_accesses >= 2
  /\ Misses(cache[L1]) = 2
  /\ Cardinality(Resident(geom[L1], cache[L1])) = 1

\* ---------------------------------------------------------------- C9
\* the calls of the log q after the first, as (node, addr, bytes, store)
Downstream(q) ==
  [i \in 1..(Len(q) - 1) |->
     [node |-> q[i + 1].node, addr |-> q[i + 1].addr,
      bytes |-> q[i + 1].bytes, store |-> q[i + 1].store]]

\* C9: in write-back mode a miss whose victim has VALID and DIRTY adds
\* exactly 1 to writebacks, with or without a miss handler, and sends the
\* handler one store of linesz bytes at (V & ~(VALID|DIRTY)) << idx_shift
\* before the fill; a miss whose victim lacks VALID or DIRTY leaves
\* writebacks alone and sends the fill only.
C9_Writeback ==
  [][IsTrace =>
      /\ \A n \in Nodes : geom[n].wb =>
           cache'[n].writebacks = cache[n].writebacks
             + Cardinality({i \in CallsOn(calls', n) :
                              /\ ~calls'[i].hit
                              /\ calls'[i].victim >= VALID + DIRTY})
      /\ (geom[L1].wb /\ ~calls'[1].hit) =>
           LET V == calls'[1].victim
               linesz == geom[L1].linesz
               mh == cache[L1].miss_handler
               wbk == [node |-> mh,
                       addr |-> ((V - VALID - DIRTY) * linesz) % Pow2(WordBits),
                       bytes |-> linesz, store |-> TRUE]
               fill == [node |-> mh,
                        addr |-> calls'[1].addr - (calls'[1].addr % linesz),
                        bytes |-> linesz, store |-> FALSE]
           IN /\ V # 0 => V \in Words(L1)
              /\ IF mh = NULL THEN Downstream(calls') = << >>
                 ELSE IF V >= VALID + DIRTY
                      THEN Downstream(calls') = <<wbk, fill>>
                      ELSE Downstream(calls') = <<fill>>]_vars

\* a write-back L1 with a miss handler has evicted a dirty line
C9_Witness ==
  /\ geom[L1].wb
  /\ cache[L1].miss_handler = L2
  /\ nacc > 0
  /\ ~calls[1].hit
  /\ calls[1].victim >= VALID + DIRTY
  /\ cache[L1].writebacks = 1
  /\ Len(calls) = 3

\* ---------------------------------------------------------------- C10
\* L1 4:1:8 wired to L2 8:2:16 after the single cold load of 0x100
S4 ==
  /\ geom = <<construct(4, 1, 8, FALSE, TRUE), construct(8, 2, 16, FALSE, TRUE)>>
  /\ cache[L1].miss_handler = L2
  /\ nacc = 1
  /\ calls[1].addr = 256 /\ ~calls[1].store

\* C10 as stated: the cold load miss at 0x100 calls L2's access exactly once,
\* with (addr = 0x100, bytes = 16, store = false).
C10_FillOfSixteen ==
  S4 => /\ ~calls[1].hit
        /\ Downstream(calls)
             = <<[node |-> L2, addr |-> 256, bytes |-> 16, store |-> FALSE]>>

\* C10 as amended: it calls L2's access exactly once, with (addr = 0x100,
\* bytes = 8, store = false): the bytes of a fill are L1's line size.
C10_FillOfEight ==
  S4 => /\ ~calls[1].hit
        /\ Downstream(calls)
             = <<[node |-> L2, addr |-> 256, bytes |-> 8, store |-> FALSE]>>
        /\ cache[L2].read_accesses = 1 /\ cache[L2].write_accesses = 0
        /\ cache[L2].bytes_read = 8

\* the scenario has run: L1 and L2 have each missed once
C10_Witness == S4 /\ cache[L1].read_misses = 1 /\ cache[L2].read_misses = 1

\* ---------------------------------------------------------------- C11
\* the tag words of a node, by slot (array) or by key (map)
TagWords(g, c) == IF g.fa THEN c.fa_tags ELSE c.tags

\* the accesses L2 has served
Served(c) == c.read_accesses + c.write_accesses

\* C11: on a write-back L1, a traced access that hits makes no call on the
\* miss handler and leaves every counter (all the state) of L2 alone; a
\* load hit leaves L1's tag words alone and a store hit changes one word
\* only, the matched one, by OR-ing DIRTY into it.  So on a wired cache the
\* store of X that follows the cold load of X hits, and L2 has been called
\* exactly once, by the load miss.
C11_HitIsLocal ==
  [][(IsTrace /\ geom[L1].wb) =>
      /\ calls'[1].hit =>
           LET T == TagWords(geom[L1], cache[L1])
               T2 == TagWords(geom[L1], cache'[L1])
               block == Shr(calls'[1].addr, geom[L1].idx_shift)
           IN /\ Len(calls') = 1
              /\ cache'[L2] = cache[L2]
              /\ Misses(cache'[L1]) = Misses(cache[L1])
              /\ cache'[L1].writebacks = cache[L1].writebacks
              /\ IF calls'[1].store
                 THEN \E s \in DOMAIN T :
                        /\ HasBit(T[s], VALID) /\ BlockOf(T[s]) = block
                        /\ T2 = [T EXCEPT ![s] = OrBit(T[s], DIRTY)]
                 ELSE T2 = T
      /\ (/\ nacc = 1
          /\ cache[L1].miss_handler = L2
          /\ ~calls[1].store /\ calls'[1].store
          /\ calls'[1].addr = calls[1].addr)
         => /\ calls'[1].hit
            /\ Served(cache[L2]) = 1
            /\ Served(cache'[L2]) = 1]_vars

\* the store of X after the cold load of X on a wired write-back L1: a hit
\* that dirtied the line, L2 called once in all
C11_Witness ==
  /\ geom[L1].wb /\ cache[L1].miss_handler = L2
  /\ nacc = 2
  /\ calls[1].hit /\ calls[1].store /\ Len(calls) = 1
  /\ Served(cache[L2]) = 1
  /\ \E w \in Words(L1) : HasBit(w, DIRTY)

\* ---------------------------------------------------------------- C12
\* the numbers a configuration of three or four fields gives
ConfigSets == atoi(config[1])
ConfigWays == atoi(config[2])
ConfigLinesz == atoi(config[3])

\* a geometry rule is violated
GeometryViolated ==
  \/ ConfigSets = 0 \/ ~IsPow2(ConfigSets)
  \/ ConfigWays < 1
  \/ ConfigLinesz < 8 \/ ~IsPow2(ConfigLinesz)

\* C12: construction from sets:ways:blocksize[:lru] fails with the
\* configuration error and builds no node whenever sets is 0 or not a power
\* of two, ways is less than 1, or blocksize is below 8 or not a power of
\* two; with sets and ways in order it succeeds for blocksize 8 and fails
\* for blocksize 4.
C12_RejectsBadGeometry ==
  (tracer # "new" /\ Len(config) >= 3) =>
    /\ GeometryViolated => (tracer = "exit" /\ geom = << >>)
    /\ (~GeometryViolated /\ (Len(config) = 3 \/ config[4] = "lru"))
         => tracer = "built"
    /\ ConfigLinesz = 4 => tracer = "exit"

\* ---------------------------------------------------------------- C13
\* C13: the calls a missing traced access makes on L1's miss handler are, in
\* this order: when L1 is write-back and the victim has VALID and DIRTY, one
\* store of L1's linesz bytes at the victim's address; then one load of
\* L1's linesz bytes at addr & ~(linesz-1); then, when L1 is write-through
\* and the access is a store, one store of the same line; and no other.
\* On a write-back store miss DIRTY is OR-ed into the line once every one of
\* these calls has been made and has returned.
C13_DownstreamOrder ==
  [][(IsTrace /\ cache[L1].miss_handler = L2 /\ ~calls'[1].hit) =>
      LET g == geom[L1]
          e == calls'[1]
          V == e.victim
          base == e.addr - (e.addr % g.linesz)
          wbk == [node |-> L2,
                  addr |-> ((V - VALID - DIRTY) * g.linesz) % Pow2(WordBits),
                  bytes |-> g.linesz, store |-> TRUE]
          fill == [node |-> L2, addr |-> base, bytes |-> g.linesz, store |-> FALSE]
          wt == [node |-> L2, addr |-> base, bytes |-> g.linesz, store |-> TRUE]
      IN /\ Downstream(calls')
              = (IF g.wb /\ V >= VALID + DIRTY THEN <<wbk>> ELSE << >>)
                  \o <<fill>>
                  \o (IF ~g.wb /\ e.store THEN <<wt>> ELSE << >>)
         /\ e.marked = IF g.wb /\ e.store THEN Len(calls') ELSE 0
         /\ (g.wb /\ e.store) =>
              \E w \in {TagWords(g, cache'[L1])[s] : s \in DOMAIN TagWords(g, cache'[L1])} :
                w = Shr(e.addr, g.idx_shift) + VALID + DIRTY]_vars

\* a store inside a line misses on a wired write-back L1 and evicts a dirty
\* line: writeback, then fill, then the DIRTY mark
C13_Witness ==
  /\ geom[L1].wb /\ cache[L1].miss_handler = L2
  /\ nacc > 0
  /\ ~calls[1].hit /\ calls[1].store
  /\ calls[1].addr % geom[L1].linesz # 0
  /\ calls[1].victim >= VALID + DIRTY
  /\ Len(calls) = 3 /\ calls[2].store /\ ~calls[3].store
  /\ calls[1].marked = 3

\* ---------------------------------------------------------------- C14
\* the resident blocks of set idx of the array in c, youngest priority
\* first, equal the recency list q
OrderedAs(g, c, idx, q) ==
  LET O == {s \in SetSlots(g, idx) : HasBit(c.tags[s], VALID)}
  IN /\ Len(q) = Cardinality(O)
     /\ \A s \in O : /\ c.tag_priority[s] < Len(q)
                     /\ q[c.tag_priority[s] + 1] = BlockOf(c.tags[s])

\* C14: on a set-associative LRU L1, after every traced access (hit or
\* miss, load or store) the resident blocks of every set, ordered by
\* priority, are the reference recency list kept by move-to-front; and a
\* miss in a set whose ways are all occupied evicts the last block of that
\* list, the resident block whose latest access is the oldest.
C14_TrueLru ==
  [][(IsTrace /\ geom[L1].lru /\ ~geom[L1].fa) =>
      LET g == geom[L1]
          idx == SetIndex(g, calls'[1].addr)
      IN /\ \A i \in 0..(g.sets - 1) : OrderedAs(g, cache'[L1], i, mru'[i])
         /\ (~calls'[1].hit /\ Len(mru[idx]) = g.ways) =>
              /\ HasBit(calls'[1].victim, VALID)
              /\ BlockOf(calls'[1].victim) = mru[idx][g.ways]
         /\ calls'[1].hit <=>
              \E k \in 1..Len(mru[idx]) :
                mru[idx][k] = Shr(calls'[1].addr, g.idx_shift)]_vars

\* after hits and stores, a miss in a full set of two or more ways has
\* evicted the line of a slot other than the set's first
C14_Witness ==
  /\ geom[L1].lru /\ ~geom[L1].fa /\ geom[L1].ways >= 2
  /\ nacc >= 4
  /\ Misses(cache[L1]) < nacc
  /\ cache[L1].write_accesses > 0
  /\ ~calls[1].hit /\ HasBit(calls[1].victim, VALID)
  /\ \E idx \in 0..(geom[L1].sets - 1) :
       /\ Len(mru[idx]) = geom[L1].ways
       /\ cache[L1].tags[Min(SetSlots(geom[L1], idx))] # NewTag(geom[L1], calls[1].addr)

\* ---------------------------------------------------------------- C15
\* on every write-back node the resident lines with DIRTY are the lines
\* stored to since their last install
DirtyIffStored ==
  \A n \in Nodes : geom[n].wb =>
    /\ stored[n] \subseteq Resident(geom[n], cache[n])
    /\ \A w \in Words(n) :
         HasBit(w, VALID) => (HasBit(w, DIRTY) <=> BlockOf(w) \in stored[n])

\* C15: in write-back mode, after every traced access a resident line has
\* DIRTY exactly when it was stored to since its last install; a load miss
\* installs its line VALID and not DIRTY, a store miss leaves its line VALID
\* and DIRTY; a load neither sets nor clears the DIRTY of any line that
\* stays resident; and a miss that evicts a line writes it back exactly
\* when that line was stored to while resident.
C15_DirtyIffStored ==
  [][(IsTrace /\ geom[L1].wb) =>
      LET g == geom[L1]
          e == calls'[1]
          b == Shr(e.addr, g.idx_shift)
          W == Words(L1)
          W2 == Words(L1)'
      IN /\ DirtyIffStored'
         /\ ~e.hit =>
              IF e.store THEN b + VALID + DIRTY \in W2 /\ b + VALID \notin W2
              ELSE b + VALID \in W2 /\ b + VALID + DIRTY \notin W2
         /\ ~e.store =>
              \A w \in W : (HasBit(w, VALID) /\ BlockOf(w) # b /\ w # e.victim)
                              => w \in W2
         /\ (~e.store /\ e.hit) => W2 = W
         /\ (~e.hit /\ HasBit(e.victim, VALID)) =>
              /\ e.victim \in W
              /\ (cache'[L1].writebacks = cache[L1].writebacks + 1)
                    <=> (BlockOf(e.victim) \in stored[L1])
              /\ (cache'[L1].writebacks = cache[L1].writebacks)
                    <=> (BlockOf(e.victim) \notin stored[L1])]_vars

\* a write-back L1 holding a clean and a dirty line has written back one
\* line it had stored to and has evicted another it had only loaded
C15_Witness ==
  /\ geom[L1].wb
  /\ stored[L1] # {}
  /\ Resident(geom[L1], cache[L1]) \ stored[L1] # {}
  /\ cache[L1].writebacks = 1
  /\ Misses(cache[L1]) = nacc /\ nacc = 4
  /\ ~calls[1].hit /\ HasBit(calls[1].victim, VALID)
  /\ ~HasBit(calls[1].victim, DIRTY)

\* ---------------------------------------------------------------- C16
\* C16: in every set of a tag array, under Random and under LRU, no two
\* slots hold the same block address (DIRTY ignored), so the scan of
\* check_tag matches at most one slot for any address.
C16_NoDuplicateBlock ==
  \A n \in Nodes : ~geom[n].fa =>
    \A idx \in 0..(geom[n].sets - 1) :
      /\ \A s, t \in OccupiedSlots(n, idx) :
           BlockOf(cache[n].tags[s]) = BlockOf(cache[n].tags[t]) => s = t
      /\ \A addr \in Addrs \cup FetchAddrs :
           Cardinality({s \in SetSlots(geom[n], idx) :
                          TagMatch(NewTag(geom[n], addr), cache[n].tags[s])}) <= 1

\* an array holds two lines in one set, one of them dirty, after hits and
\* after an eviction
C16_Witness ==
  \E n \in Nodes :
    /\ ~geom[n].fa
    /\ \E idx \in 0..(geom[n].sets - 1) :
         /\ Cardinality(OccupiedSlots(n, idx)) >= 2
         /\ \E s \in OccupiedSlots(n, idx) : HasBit(cache[n].tags[s], DIRTY)
    /\ Misses(cache[n]) < Served(cache[n])
    /\ Misses(cache[n]) > Cardinality(Resident(geom[n], cache[n]))

\* ---------------------------------------------------------------- C17
\* C17: in a chain where L2 is L1's miss handler (and is called by nothing
\* else) and both are write-back, in every reachable state
\* L2.read_accesses = L1.read_misses + L1.write_misses,
\* L2.write_accesses = L1.writebacks,
\* L2.bytes_read = L1.linesz * L2.read_accesses and
\* L2.bytes_written = L1.linesz * L2.write_accesses.
C17_ChainCounters ==
  (cache[L1].miss_handler = L2 /\ geom[L1].wb /\ geom[L2].wb) =>
    /\ cache[L2].read_accesses = cache[L1].read_misses + cache[L1].write_misses
    /\ cache[L2].write_accesses = cache[L1].writebacks
    /\ cache[L2].bytes_read = geom[L1].linesz * cache[L2].read_accesses
    /\ cache[L2].bytes_written = geom[L1].linesz * cache[L2].write_accesses

\* a wired write-back chain whose L1 has hit, missed on a load and on a
\* store and written a line back into an L2 of wider lines
C17_Witness ==
  /\ cache[L1].miss_handler = L2 /\ geom[L1].wb /\ geom[L2].wb
  /\ geom[L2].linesz > geom[L1].linesz
  /\ cache[L1].read_misses > 0 /\ cache[L1].write_misses > 0
  /\ cache[L1].writebacks > 0
  /\ Misses(cache[L1]) < nacc
  /\ cache[L2].bytes_written = geom[L1].linesz

\* ---------------------------------------------------------------- C18
\* in every set of every LRU array, every empty slot has a priority
\* strictly greater than every occupied slot
EmptyIsOldest ==
  \A n \in Nodes : (geom[n].lru /\ ~geom[n].fa) =>
    \A idx \in 0..(geom[n].sets - 1) :
      \A s \in SetSlots(geom[n], idx) \ OccupiedSlots(n, idx) :
        \A t \in OccupiedSlots(n, idx) :
          cache[n].tag_priority[s] > cache[n].tag_priority[t]

\* C18: on a set-associative LRU node a miss never evicts a VALID line
\* while the indexed set still has an empty slot: after every traced access
\* every empty slot of a set has a priority strictly greater than every
\* occupied slot of it, and the victim of every miss in a set that had an
\* empty slot is zero, the miss filling one more slot.
C18_EmptySlotFirst ==
  [][IsTrace =>
      /\ EmptyIsOldest'
      /\ \A n \in Nodes : (geom[n].lru /\ ~geom[n].fa) =>
           \A i \in CallsOn(calls', n) :
             LET idx == SetIndex(geom[n], calls'[i].addr)
                 O == OccupiedSlots(n, idx)
                 O2 == {s \in SetSlots(geom[n], idx) : HasBit(cache'[n].tags[s], VALID)}
             IN (/\ Cardinality(CallsOn(calls', n)) = 1
                 /\ ~calls'[i].hit
                 /\ Cardinality(O) < geom[n].ways)
                => /\ calls'[i].victim = 0
                   /\ O \subseteq O2
                   /\ Cardinality(O2) = Cardinality(O) + 1
                   /\ \A s \in O : cache'[n].tags[s] = cache[n].tags[s]]_vars

\* a set of three ways holding two lines after a hit and a second miss
C18_Witness ==
  \E n \in Nodes :
    /\ geom[n].lru /\ ~geom[n].fa /\ geom[n].ways = 3
    /\ \E idx \in 0..(geom[n].sets - 1) : Cardinality(OccupiedSlots(n, idx)) = 2
    /\ Misses(cache[n]) < Served(cache[n])
    /\ \E i \in CallsOn(calls, n) : ~calls[i].hit /\ calls[i].victim = 0

\* ---------------------------------------------------------------- C19
\* C19: on a write-through node (wb false), after every traced access no
\* word has DIRTY and writebacks is 0; and every traced store on a
\* write-through L1 with a miss handler, hit or miss, sends the handler
\* exactly one store, of linesz bytes at addr & ~(linesz-1): alone on a
\* hit, after the fill on a miss.
C19_WriteThrough ==
  [][IsTrace =>
      /\ \A n \in Nodes : ~geom[n].wb =>
           /\ \A w \in Words(n)' : ~HasBit(w, DIRTY)
           /\ cache'[n].writebacks = 0
      /\ (~geom[L1].wb /\ cache[L1].miss_handler = L2) =>
           LET e == calls'[1]
               linesz == geom[L1].linesz
               st == {i \in 1..Len(Downstream(calls')) : Downstream(calls')[i].store}
               wt == [node |-> L2, addr |-> e.addr - (e.addr % linesz),
                      bytes |-> linesz, store |-> TRUE]
           IN IF e.store
              THEN /\ Cardinality(st) = 1
                   /\ \A i \in st : Downstream(calls')[i] = wt
                   /\ Len(calls') = IF e.hit THEN 2 ELSE 3
                   /\ cache'[L2].write_accesses = cache[L2].write_accesses + 1
              ELSE st = {}]_vars

\* a wired write-through L1 has forwarded the store of a hit inside a line
\* after the store of a miss
C19_Witness ==
  /\ ~geom[L1].wb /\ cache[L1].miss_handler = L2
  /\ calls # << >>
  /\ calls[1].store /\ calls[1].hit /\ calls[1].addr % geom[L1].linesz # 0
  /\ Len(calls) = 2
  /\ cache[L1].write_misses > 0
  /\ cache[L2].write_accesses = cache[L1].write_accesses
  /\ cache[L2].write_accesses >= 2

\* ---------------------------------------------------------------- C20
\* C20: on a node with a tag array, the calls of a traced access change
\* tag words and priorities only in the sets their addresses index,
\* (addr >> idx_shift) & (sets-1); the words and priorities of every other
\* set are unchanged; calls that all hit change the block of no slot; and
\* the LFSR is unchanged unless one of the calls missed.
C20_OtherSetsUnchanged ==
  [][IsTrace =>
      \A n \in Nodes : ~geom[n].fa =>
        LET on == CallsOn(calls', n)
            indexed == {(calls'[i].addr \div geom[n].linesz) % geom[n].sets : i \in on}
            others == {s \in DOMAIN cache[n].tags : (s \div geom[n].ways) \notin indexed}
        IN /\ \A s \in others :
                /\ cache'[n].tags[s] = cache[n].tags[s]
                /\ cache'[n].tag_priority[s] = cache[n].tag_priority[s]
           /\ (\A i \in on : calls'[i].hit) =>
                /\ Placement(geom[n], cache'[n]) = Placement(geom[n], cache[n])
                /\ cache'[n].lfsr = cache[n].lfsr
           /\ cache'[n].lfsr # cache[n].lfsr =>
                \E i \in on : ~calls'[i].hit]_vars

\* an array of several sets holds lines in two of them when a miss evicts
\* a line of one
C20_Witness ==
  \E n \in Nodes :
    /\ ~geom[n].fa /\ geom[n].sets >= 2
    /\ Cardinality({idx \in 0..(geom[n].sets - 1) : OccupiedSlots(n, idx) # {}}) >= 2
    /\ \E i \in CallsOn(calls, n) : ~calls[i].hit /\ HasBit(calls[i].victim, VALID)
    /\ Misses(cache[n]) < Served(cache[n])

====
